---- MODULE Spec2Model ----
(***************************************************************************)
(* SideNote: the note store of the renderer (App), the file-storage IPC    *)
(* handlers of the Electron main process, and the edge-dock poll loop.     *)
(*                                                                         *)
(* Text (a JSON document, a title, a content, an id) is a sequence of      *)
(* one-character strings, so that serialising and parsing are computed     *)
(* character by character.                                                 *)
(***************************************************************************)
EXTENDS Integers, Sequences, FiniteSets, TLC

VARIABLES
  \* ---- renderer (App) ----
  isElectron,     \* window.electron?.isElectron
  notes,          \* useState<Note[]>
  activeNoteId,   \* useState<string | null>
  notesPath,      \* useState<string | null>
  initPc,         \* position of the async init() of the load effect
  lsNotes,        \* localStorage['sidenote-data'] (a document)
  lsPath,         \* localStorage['sidenote-path'] (a path, or NoValue)
  now,            \* Date.now()
  nextId,         \* number of identifiers crypto.randomUUID() has handed out
  lastOp,         \* the handler that ran last, with what it saw
  ops,            \* number of user events handled so far
  \* ---- main process: file storage ----
  file,           \* <folder>/notes.json (a document)
  pendingSaves,   \* 'save-notes' invocations in flight
  loadResult,     \* what the last 'load-notes' handler resolved to / threw
  \* ---- main process: edge dock ----
  mainWindow,     \* TRUE while the BrowserWindow exists, FALSE for null
  pollInterval,   \* the timer the module variable pollInterval refers to
  liveTimers,     \* setInterval timers that have not been cleared
  winBounds,      \* mainWindow.getBounds()
  cursor,         \* screen.getCursorScreenPoint()
  layout,         \* index of the connected display arrangement
  lastTick        \* what the last poll tick read and did

storeVars == <<isElectron, notes, activeNoteId, notesPath, initPc, lsNotes,
               lsPath, now, nextId, lastOp, ops>>
fileVars == <<file, pendingSaves, loadResult>>
dockVars == <<mainWindow, pollInterval, liveTimers, winBounds,
              cursor, layout, lastTick>>
vars == <<storeVars, fileVars, dockVars>>

\* null and the empty string are both falsy in the tests the program makes
\* (!activeNoteId, savedPath && ...): both are the empty text
None == <<>>

(***************************************************************************)
(* Text helpers                                                            *)
(***************************************************************************)
QUOTE == "\""
BACKSLASH == "\\"
NEWLINE == "\n"
Digits == <<"0", "1", "2", "3", "4", "5", "6", "7", "8", "9">>

RECURSIVE Spaces(_)
Spaces(n) == IF n <= 0 THEN <<>> ELSE <<" ">> \o Spaces(n - 1)

\* String(n) of a non-negative integer, as JSON.stringify writes a number
RECURSIVE NumberToText(_)
NumberToText(n) ==
  IF n < 10 THEN <<Digits[n + 1]>>
  ELSE NumberToText(n \div 10) \o <<Digits[(n % 10) + 1]>>

DigitValue(c) == CHOOSE d \in 0..9 : Digits[d + 1] = c
IsDigit(c) == \E d \in 0..9 : Digits[d + 1] = c

\* the property names of a Note, as they appear in the JSON text
KeyText(k) ==
  CASE k = "id" -> <<"i", "d">>
    [] k = "title" -> <<"t", "i", "t", "l", "e">>
    [] k = "content" -> <<"c", "o", "n", "t", "e", "n", "t">>
    [] k = "updatedAt" -> <<"u", "p", "d", "a", "t", "e", "d", "A", "t">>

NoteKeys == <<"id", "title", "content", "updatedAt">>

(***************************************************************************)
(* JSON.stringify(notes, null, indent)                                     *)
(***************************************************************************)
RECURSIVE EscapeMutNoBackslash(_)
EscapeMutNoBackslash(s) ==
  IF s = <<>> THEN <<>>
  ELSE LET c == Head(s)
       IN  (IF c = QUOTE THEN <<BACKSLASH, QUOTE>>
            ELSE IF c = NEWLINE THEN <<BACKSLASH, "n">>
            ELSE <<c>>) \o EscapeMutNoBackslash(Tail(s))

RECURSIVE Escape(_)
Escape(s) ==
  IF s = <<>> THEN <<>>
  ELSE LET c == Head(s)
       IN  (IF c = QUOTE THEN <<BACKSLASH, QUOTE>>
            ELSE IF c = BACKSLASH THEN <<BACKSLASH, BACKSLASH>>
            ELSE IF c = NEWLINE THEN <<BACKSLASH, "n">>
            ELSE <<c>>) \o Escape(Tail(s))

StringifyString(s) == <<QUOTE>> \o Escape(s) \o <<QUOTE>>

StringifyValue(note, k) ==
  IF k = "updatedAt" THEN NumberToText(note[k]) ELSE StringifyString(note[k])

\* "key":value, with a space after the colon when indenting
StringifyProp(note, k, indent) ==
  StringifyString(KeyText(k)) \o <<":">>
    \o (IF indent > 0 THEN <<" ">> ELSE <<>>) \o StringifyValue(note, k)

\* the separator before an item at nesting depth `level`
Break(indent, level) ==
  IF indent > 0 THEN <<NEWLINE>> \o Spaces(indent * level) ELSE <<>>

RECURSIVE StringifyProps(_, _, _, _)
StringifyProps(note, i, indent, level) ==
  IF i > Len(NoteKeys) THEN <<>>
  ELSE (IF i > 1 THEN <<",">> ELSE <<>>) \o Break(indent, level)
         \o StringifyProp(note, NoteKeys[i], indent)
         \o StringifyProps(note, i + 1, indent, level)

StringifyNote(note, indent, level) ==
  <<"{">> \o StringifyProps(note, 1, indent, level + 1)
    \o Break(indent, level) \o <<"}">>

RECURSIVE StringifyItems(_, _, _)
StringifyItems(ns, i, indent) ==
  IF i > Len(ns) THEN <<>>
  ELSE (IF i > 1 THEN <<",">> ELSE <<>>) \o Break(indent, 1)
         \o StringifyNote(ns[i], indent, 1)
         \o StringifyItems(ns, i + 1, indent)

JSONstringify(ns, indent) ==
  IF ns = <<>> THEN <<"[", "]">>
  ELSE <<"[">> \o StringifyItems(ns, 1, indent) \o Break(indent, 0) \o <<"]">>

(***************************************************************************)
(* JSON.parse(text), for the JSON subset the program writes: an array of   *)
(* objects whose values are strings or non-negative integers.  The text is *)
(* read one character at a time; `st` is the state of the reader:          *)
(*   mode    what the reader expects next                                  *)
(*   key     the property name read last                                   *)
(*   str     the characters of the string literal being read               *)
(*   num     the value of the number being read                            *)
(*   obj     the properties of the object being read: <<name, value>>      *)
(*   items   the objects read so far                                       *)
(***************************************************************************)
IsWs(c) == c \in {" ", NEWLINE}

ParseStart ==
  [mode |-> "value", key |-> <<>>, str |-> <<>>, num |-> 0, obj |-> <<>>,
   items |-> <<>>]

Bad(st) == [st EXCEPT !.mode = "error"]

\* the value of property k of a parsed object (the last one wins)
HasKey(members, k) == \E j \in 1..Len(members) : members[j][1] = KeyText(k)
Lookup(members, k) ==
  LET js == {j \in 1..Len(members) : members[j][1] = KeyText(k)}
  IN  members[CHOOSE j \in js : \A h \in js : h <= j][2]

\* a parsed object seen as a Note; a property it lacks reads as undefined
ObjectToNote(members) ==
  [k \in {NoteKeys[j] : j \in 1..Len(NoteKeys)} |->
     IF HasKey(members, k) THEN Lookup(members, k) ELSE "undefined"]

\* a property value is complete: the reader is after it
EndValue(st, v) ==
  [st EXCEPT !.mode = "afterValue", !.obj = Append(st.obj, <<st.key, v>>)]

\* the character after a property value: ',' or '}'
AfterValue(st, c) ==
  IF IsWs(c) THEN st
  ELSE IF c = "," THEN [st EXCEPT !.mode = "nextKey"]
  ELSE IF c = "}" THEN
    [st EXCEPT !.mode = "afterObject", !.obj = <<>>,
               !.items = Append(st.items, ObjectToNote(st.obj))]
  ELSE Bad(st)

\* one character inside a string literal (esc: after a backslash)
InString(st, c, esc, done) ==
  IF esc
  THEN IF c = "n" THEN [st EXCEPT !.str = Append(st.str, NEWLINE), !.mode = done]
       ELSE IF c \in {QUOTE, BACKSLASH}
         THEN [st EXCEPT !.str = Append(st.str, c), !.mode = done]
       ELSE Bad(st)
  ELSE IF c = NEWLINE THEN Bad(st)     \* a raw control character
  ELSE [st EXCEPT !.str = Append(st.str, c)]

ParseStep(st, c) ==
  CASE st.mode = "value" ->
         IF IsWs(c) THEN st
         ELSE IF c = "[" THEN [st EXCEPT !.mode = "firstItem"] ELSE Bad(st)
    [] st.mode = "firstItem" ->
         IF IsWs(c) THEN st
         ELSE IF c = "]" THEN [st EXCEPT !.mode = "end"]
         ELSE IF c = "{" THEN [st EXCEPT !.mode = "firstKey"] ELSE Bad(st)
    [] st.mode = "nextItem" ->
         IF IsWs(c) THEN st
         ELSE IF c = "{" THEN [st EXCEPT !.mode = "firstKey"] ELSE Bad(st)
    [] st.mode = "firstKey" ->
         IF IsWs(c) THEN st
         ELSE IF c = "}" THEN
           [st EXCEPT !.mode = "afterObject",
                      !.items = Append(st.items, ObjectToNote(<<>>))]
         ELSE IF c = QUOTE THEN [st EXCEPT !.mode = "key", !.str = <<>>]
         ELSE Bad(st)
    [] st.mode = "nextKey" ->
         IF IsWs(c) THEN st
         ELSE IF c = QUOTE THEN [st EXCEPT !.mode = "key", !.str = <<>>]
         ELSE Bad(st)
    [] st.mode = "key" ->
         IF c = QUOTE THEN [st EXCEPT !.mode = "colon", !.key = st.str]
         ELSE IF c = BACKSLASH THEN [st EXCEPT !.mode = "keyEscape"]
         ELSE InString(st, c, FALSE, "key")
    [] st.mode = "keyEscape" -> InString(st, c, TRUE, "key")
    [] st.mode = "colon" ->
         IF IsWs(c) THEN st
         ELSE IF c = ":" THEN [st EXCEPT !.mode = "propValue"] ELSE Bad(st)
    [] st.mode = "propValue" ->
         IF IsWs(c) THEN st
         ELSE IF c = QUOTE THEN [st EXCEPT !.mode = "string", !.str = <<>>]
         ELSE IF c = "0" THEN [st EXCEPT !.mode = "zero", !.num = 0]
         ELSE IF IsDigit(c) THEN [st EXCEPT !.mode = "number", !.num = DigitValue(c)]
         ELSE Bad(st)
    [] st.mode = "string" ->
         IF c = QUOTE THEN EndValue(st, st.str)
         ELSE IF c = BACKSLASH THEN [st EXCEPT !.mode = "stringEscape"]
         ELSE InString(st, c, FALSE, "string")
    [] st.mode = "stringEscape" -> InString(st, c, TRUE, "string")
    [] st.mode = "zero" ->
         IF IsDigit(c) THEN Bad(st) ELSE AfterValue(EndValue(st, st.num), c)
    [] st.mode = "number" ->
         IF IsDigit(c) THEN [st EXCEPT !.num = st.num * 10 + DigitValue(c)]
         ELSE AfterValue(EndValue(st, st.num), c)
    [] st.mode = "afterValue" -> AfterValue(st, c)
    [] st.mode = "afterObject" ->
         IF IsWs(c) THEN st
         ELSE IF c = "," THEN [st EXCEPT !.mode = "nextItem"]
         ELSE IF c = "]" THEN [st EXCEPT !.mode = "end"] ELSE Bad(st)
    [] st.mode = "end" -> IF IsWs(c) THEN st ELSE Bad(st)
    [] OTHER -> Bad(st)

\* the reader's state after the characters lo..hi of t, from state st
\* (the range is halved to keep the nesting of the evaluation shallow)
RECURSIVE ParseRange(_, _, _, _)
ParseRange(t, lo, hi, st) ==
  IF lo > hi \/ st.mode = "error" THEN st
  ELSE IF lo = hi THEN ParseStep(st, t[lo])
  ELSE ParseRange(t, ((lo + hi) \div 2) + 1, hi,
                  ParseRange(t, lo, (lo + hi) \div 2, st))

ParseResult(st) ==
  IF st.mode = "end" THEN [ok |-> TRUE, val |-> st.items]
  ELSE [ok |-> FALSE, val |-> <<>>]     \* SyntaxError

JSONparse(t) == ParseResult(ParseRange(t, 1, Len(t), ParseStart))

(***************************************************************************)
(* Documents: what a localStorage key or a file holds.  A document written *)
(* by JSON.stringify is kept as the arguments of that call; its text is    *)
(* computed when it is read.                                               *)
(***************************************************************************)
\* getItem() returns null / fs.access() fails
NoValue == [kind |-> "none"]
Missing == [kind |-> "none"]
\* a text that is not JSON (a truncated write, a foreign file)
CorruptText == <<"[", "{">>
Corrupt == [kind |-> "text", text |-> CorruptText]
Written(ns, indent) == [kind |-> "json", notes |-> ns, indent |-> indent]

TextOf(doc) ==
  IF doc.kind = "json" THEN JSONstringify(doc.notes, doc.indent) ELSE doc.text

(***************************************************************************)
(* Main process: the file-storage IPC handlers                             *)
(***************************************************************************)
\* 'save-notes': fs.writeFile(notes.json, JSON.stringify(notes, null, 2));
\* writeOk = FALSE is a write that throws.  The result is the new file
\* content and the value the handler resolves to.
WriteError == <<"E">>

SaveNotesHandlerMutRethrow(oldFile, ns, writeOk) ==
  IF writeOk
  THEN [file |-> Written(ns, 2), status |-> "resolved",
        reply |-> [success |-> TRUE]]
  ELSE [file |-> oldFile, status |-> "rejected", reply |-> WriteError]

SaveNotesHandler(oldFile, ns, writeOk) ==
  IF writeOk
  THEN [file |-> Written(ns, 2), status |-> "resolved",
        reply |-> [success |-> TRUE]]
  ELSE [file |-> oldFile, status |-> "resolved",
        reply |-> [success |-> FALSE, error |-> WriteError]]

HandlerReply(parsed) ==
  IF parsed.ok THEN [status |-> "resolved", value |-> parsed.val]
  ELSE [status |-> "rejected", value |-> <<>>]

\* 'load-notes': [] when the file does not exist, else JSON.parse of its
\* text; a parse error is rethrown (the invocation rejects).
LoadNotesHandler(f) ==
  IF f = Missing THEN [status |-> "resolved", value |-> <<>>]
  ELSE HandlerReply(JSONparse(TextOf(f)))

NoReply == [status |-> "none", value |-> <<>>]

(***************************************************************************)
(* Renderer: the note store of App                                         *)
(***************************************************************************)
MaxClock == 2
MaxOps == 3
MaxPending == 1

NewIdMutFixed(n) == <<"u", "1">>
NewId(n) == <<"u">> \o NumberToText(n)

TitleInputs == {<<"T">>}
ContentInputs == {<<"y", NEWLINE>>}

\* collections written by earlier runs of the program
Note1 == [id |-> NewId(1), title |-> <<"a">>, content |-> <<"x">>, updatedAt |-> 0]
Note2 == [id |-> NewId(2), title |-> <<"b">>, content |-> <<>>, updatedAt |-> 1]
StoredDocs == {NoValue, Corrupt, Written(<<Note1>>, 0), Written(<<Note2, Note1>>, 0)}
FileDocs == {Missing, Corrupt, Written(<<>>, 2), Written(<<Note2>>, 2),
             Written(<<Note1, Note2>>, 2)}
FolderPath == <<"d">>

Ids(ns) == {ns[j].id : j \in 1..Len(ns)}
FirstId(ns) == ns[1].id

\* const activeNote = notes.find(n => n.id === activeNoteId)
HasActiveNote == \E j \in 1..Len(notes) : notes[j].id = activeNoteId

WelcomeContent == <<"#", " ", "W">>
WelcomeNote(id, ts) ==
  [id |-> id, title |-> <<"W">>, content |-> WelcomeContent, updatedAt |-> ts]

\* The "Save Notes" effect, run after a render in which notes or notesPath
\* changed: nothing for an empty collection; else localStorage is
\* overwritten and, with a folder in the desktop host, a save is invoked.
SaveEffectStorage(ns, old) == IF Len(ns) = 0 THEN old ELSE Written(ns, 0)

SaveEffectInvokes(ns, path) == Len(ns) # 0 /\ isElectron /\ path # None

SaveNotesEffect(ns, path) ==
  /\ lsNotes' = SaveEffectStorage(ns, lsNotes)
  /\ pendingSaves' = IF SaveEffectInvokes(ns, path)
                     THEN pendingSaves \cup {[path |-> path, notes |-> ns]}
                     ELSE pendingSaves

\* the renderer has fewer than MaxPending 'save-notes' invocations in flight
CanInvoke == Cardinality(pendingSaves) < MaxPending \/ ~isElectron \/ notesPath = None

\* lastTick after an event that is not a tick
NoTick == [event |-> "other", branch |-> "none", from |-> 0, n |-> 0]

dockUnchanged == UNCHANGED dockVars

StoreInit ==
  /\ isElectron \in BOOLEAN
  /\ notes = <<>>
  /\ activeNoteId = None
  /\ notesPath = None
  /\ initPc = "start"
  /\ lsNotes \in StoredDocs
  /\ lsPath \in {None, FolderPath}
  /\ file \in (IF isElectron /\ lsPath # None THEN FileDocs ELSE {Missing})
  /\ now = 1
  /\ nextId = 2
  /\ lastOp = [name |-> "mount", arg |-> <<>>, active |-> None]
  /\ ops = 0
  /\ pendingSaves = {}
  /\ loadResult = NoReply

\* step 4 of init(): the collection parsed from localStorage, or, when
\* nothing is stored, the welcome note; a stored text that does not parse
\* leaves the state as it is (setNotes is not called)
StoredNotes(stored) ==
  IF stored = NoValue THEN [ok |-> FALSE, val |-> <<>>] ELSE JSONparse(TextOf(stored))

FallbackNotesMutSeedOnError(stored, parsed, cur) ==
  IF stored # NoValue /\ parsed.ok THEN parsed.val
  ELSE <<WelcomeNote(NewId(nextId + 1), now)>>

FallbackNotes(stored, parsed, cur) ==
  IF stored # NoValue THEN (IF parsed.ok THEN parsed.val ELSE cur)
  ELSE <<WelcomeNote(NewId(nextId + 1), now)>>

FallbackActive(stored, parsed, cur) ==
  IF stored # NoValue
  THEN (IF parsed.ok /\ Len(parsed.val) > 0 THEN FirstId(parsed.val) ELSE cur)
  ELSE NewId(nextId + 1)

Fallback(stored, parsed, path) ==
  /\ notes' = FallbackNotes(stored, parsed, notes)
  /\ activeNoteId' = FallbackActive(stored, parsed, activeNoteId)
  /\ nextId' = IF stored = NoValue THEN nextId + 1 ELSE nextId
  /\ IF stored # NoValue /\ ~parsed.ok
     THEN UNCHANGED <<lsNotes, pendingSaves>>
     ELSE SaveNotesEffect(notes', path)

FallbackToLocalStorage(path) == Fallback(lsNotes, StoredNotes(lsNotes), path)

UsesFileBackendMutNoHostTest(savedPath) == savedPath # None

\* init() takes the file branch
UsesFileBackend(savedPath) == savedPath # None /\ isElectron

\* init() up to its first await, or to its end when it does not await
InitEffect ==
  /\ initPc = "start"
  /\ IF UsesFileBackend(lsPath)
     THEN /\ notesPath' = lsPath
          /\ initPc' = "loading"
          /\ lastOp' = [name |-> "initAwait", arg |-> <<>>, active |-> None]
          /\ UNCHANGED <<notes, activeNoteId, nextId, lsNotes, pendingSaves>>
     ELSE /\ FallbackToLocalStorage(notesPath)
          /\ initPc' = "done"
          /\ lastOp' = [name |-> "initDone", arg |-> <<>>, active |-> None]
          /\ UNCHANGED notesPath
  /\ UNCHANGED <<isElectron, lsPath, now, file, loadResult>>
  /\ UNCHANGED ops
  /\ dockUnchanged

\* the main process serves the pending 'load-notes' invocation
LoadNotes ==
  /\ initPc = "loading"
  /\ loadResult' = LoadNotesHandler(file)
  /\ initPc' = "replied"
  /\ lastOp' = [name |-> "loadHandler", arg |-> <<>>, active |-> None]
  /\ UNCHANGED <<isElectron, notes, activeNoteId, notesPath, lsNotes, lsPath,
                 now, nextId, file, pendingSaves>>
  /\ UNCHANGED ops
  /\ dockUnchanged

\* init() resumes after `await window.electron?.loadNotes(savedPath)`
InitResume ==
  /\ initPc = "replied"
  /\ CanInvoke
  /\ IF loadResult.status = "resolved"
     THEN /\ notes' = loadResult.value
          /\ activeNoteId' = IF Len(loadResult.value) > 0
                             THEN FirstId(loadResult.value) ELSE activeNoteId
          /\ SaveNotesEffect(notes', notesPath)
          /\ UNCHANGED nextId
     ELSE FallbackToLocalStorage(notesPath)
  /\ initPc' = "done"
  /\ lastOp' = [name |-> "initDone", arg |-> <<>>, active |-> None]
  /\ UNCHANGED <<isElectron, notesPath, lsPath, now, file, loadResult>>
  /\ UNCHANGED ops
  /\ dockUnchanged

\* the UI is mounted and accepts one more user event
Mounted == initPc # "start" /\ ops < MaxOps

\* setNotes(prev => [newNote, ...prev])
PrependMutAppend(newNote, prev) == prev \o <<newNote>>
Prepend(newNote, prev) == <<newNote>> \o prev

HandleCreateNote ==
  /\ Mounted /\ CanInvoke
  /\ LET newNote == [id |-> NewId(nextId + 1), title |-> <<"N">>,
                     content |-> <<>>, updatedAt |-> now]
     IN  /\ notes' = Prepend(newNote, notes)
         /\ activeNoteId' = newNote.id
         /\ lastOp' = [name |-> "create", arg |-> newNote.id, active |-> activeNoteId]
  /\ nextId' = nextId + 1
  /\ SaveNotesEffect(notes', notesPath)
  /\ UNCHANGED <<isElectron, notesPath, initPc, lsPath, now, file, loadResult>>
  /\ ops' = ops + 1
  /\ dockUnchanged

\* notes.filter(n => n.id !== id)
Filter(ns, id) == SelectSeq(ns, LAMBDA n : n.id # id)

\* newNotes.length > 0 ? newNotes[0].id : null
NextActiveMutNull(newNotes) == None
NextActive(newNotes) == IF Len(newNotes) > 0 THEN FirstId(newNotes) ELSE None

HandleDeleteNote(id) ==
  /\ Mounted /\ CanInvoke
  /\ id \in Ids(notes)
  /\ notes' = Filter(notes, id)
  /\ activeNoteId' = IF activeNoteId = id THEN NextActive(notes') ELSE activeNoteId
  /\ lastOp' = [name |-> "delete", arg |-> id, active |-> activeNoteId]
  /\ SaveNotesEffect(notes', notesPath)
  /\ UNCHANGED <<isElectron, notesPath, initPc, lsPath, now, nextId, file,
                 loadResult>>
  /\ ops' = ops + 1
  /\ dockUnchanged

\* note.id === activeNoteId ? { ...note, content, updatedAt: Date.now() } : note
WithContentMutKeepStamp(note, content, ts) == [note EXCEPT !.content = content]
WithContent(note, content, ts) ==
  [note EXCEPT !.content = content, !.updatedAt = ts]

UpdateNoteMutAll(ns, id, content, ts) ==
  [j \in 1..Len(ns) |-> WithContent(ns[j], content, ts)]

UpdateNote(ns, id, content, ts) ==
  [j \in 1..Len(ns) |-> IF ns[j].id = id THEN WithContent(ns[j], content, ts)
                        ELSE ns[j]]

HandleUpdateNote(content) ==
  /\ Mounted /\ CanInvoke
  /\ lastOp' = [name |-> "content", arg |-> content, active |-> activeNoteId]
  /\ IF activeNoteId = None
     THEN UNCHANGED <<notes, lsNotes, pendingSaves>>
     ELSE /\ notes' = UpdateNote(notes, activeNoteId, content, now)
          /\ SaveNotesEffect(notes', notesPath)
  /\ UNCHANGED <<isElectron, activeNoteId, notesPath, initPc, lsPath, now,
                 nextId, file, loadResult>>
  /\ ops' = ops + 1
  /\ dockUnchanged

\* n.id === activeNoteId ? { ...n, title: e.target.value } : n
WithTitleMutStamp(n, title, ts) == [n EXCEPT !.title = title, !.updatedAt = ts]
WithTitle(n, title, ts) == [n EXCEPT !.title = title]

UpdateTitle(ns, id, title, ts) ==
  [j \in 1..Len(ns) |-> IF ns[j].id = id THEN WithTitle(ns[j], title, ts)
                        ELSE ns[j]]

\* onChange of the title input, which is rendered only for an active note
HandleTitleChange(title) ==
  /\ Mounted /\ CanInvoke
  /\ HasActiveNote
  /\ notes' = UpdateTitle(notes, activeNoteId, title, now)
  /\ lastOp' = [name |-> "title", arg |-> title, active |-> activeNoteId]
  /\ SaveNotesEffect(notes', notesPath)
  /\ UNCHANGED <<isElectron, activeNoteId, notesPath, initPc, lsPath, now,
                 nextId, file, loadResult>>
  /\ ops' = ops + 1
  /\ dockUnchanged

\* onClick of a row of the note list
SelectNote(id) ==
  /\ Mounted
  /\ id \in Ids(notes)
  /\ id # activeNoteId
  /\ activeNoteId' = id
  /\ lastOp' = [name |-> "select", arg |-> id, active |-> activeNoteId]
  /\ UNCHANGED <<isElectron, notes, notesPath, initPc, lsNotes, lsPath, now,
                 nextId>>
  /\ UNCHANGED fileVars
  /\ ops' = ops + 1
  /\ dockUnchanged

\* the main process serves one 'save-notes' invocation; the renderer does
\* nothing with the result but log a rejection (.catch)
SaveNotes(p, writeOk) ==
  /\ p \in pendingSaves
  /\ LET r == SaveNotesHandler(file, p.notes, writeOk)
     IN  /\ file' = r.file
         /\ lastOp' = [name |-> "saveHandler",
                       arg |-> [written |-> writeOk, status |-> r.status,
                                reply |-> r.reply],
                       active |-> None]
  /\ pendingSaves' = pendingSaves \ {p}
  /\ UNCHANGED <<isElectron, notes, activeNoteId, notesPath, initPc, lsNotes,
                 lsPath, now, nextId, loadResult>>
  /\ UNCHANGED ops
  /\ dockUnchanged

\* time passes: Date.now() does not go back
AdvanceClock ==
  /\ now < MaxClock
  /\ now' = now + 1
  /\ lastOp' = [name |-> "clock", arg |-> <<>>, active |-> None]
  /\ UNCHANGED <<isElectron, notes, activeNoteId, notesPath, initPc, lsNotes,
                 lsPath, nextId>>
  /\ UNCHANGED fileVars
  /\ UNCHANGED ops
  /\ dockUnchanged

DockIdle ==
  /\ mainWindow = FALSE
  /\ pollInterval = 0
  /\ liveTimers = {}
  /\ winBounds = [x |-> 0, y |-> 0, width |-> 0, height |-> 0]
  /\ cursor = [x |-> 0, y |-> 0]
  /\ layout = 1
  /\ lastTick = NoTick

StoreNext ==
  \/ InitEffect
  \/ LoadNotes
  \/ InitResume
  \/ HandleCreateNote
  \/ \E id \in Ids(notes) : HandleDeleteNote(id)
  \/ \E content \in ContentInputs : HandleUpdateNote(content)
  \/ \E title \in TitleInputs : HandleTitleChange(title)
  \/ \E id \in Ids(notes) : SelectNote(id)
  \/ \E p \in pendingSaves, writeOk \in BOOLEAN : SaveNotes(p, writeOk)
  \/ AdvanceClock

InitStore == StoreInit /\ DockIdle

SpecStore == InitStore /\ [][StoreNext]_vars

(***************************************************************************)
(* The store with the folder picker and a file system whose writes all     *)
(* succeed.                                                                *)
(***************************************************************************)
\* handleSelectFolder, from the point where the directory dialog has
\* returned `path` (None: cancelled): setNotesPath, the path stored, the
\* current notes saved to the folder at once; the Save Notes effect then
\* runs for the new notesPath
HandleSelectFolder(path) ==
  /\ Mounted
  /\ isElectron
  /\ Cardinality(pendingSaves) < MaxPending
  /\ lastOp' = [name |-> "selectFolder", arg |-> path, active |-> activeNoteId]
  /\ IF path = None
     THEN UNCHANGED <<notesPath, lsPath, lsNotes, pendingSaves>>
     ELSE /\ notesPath' = path
          /\ lsPath' = path
          /\ lsNotes' = SaveEffectStorage(notes, lsNotes)
          /\ pendingSaves' = pendingSaves \cup {[path |-> path, notes |-> notes]}
  /\ UNCHANGED <<isElectron, notes, activeNoteId, initPc, now, nextId, file,
                 loadResult>>
  /\ ops' = ops + 1
  /\ dockUnchanged

SavesNext ==
  \/ InitEffect
  \/ LoadNotes
  \/ InitResume
  \/ HandleCreateNote
  \/ \E id \in Ids(notes) : HandleDeleteNote(id)
  \/ \E content \in ContentInputs : HandleUpdateNote(content)
  \/ \E title \in TitleInputs : HandleTitleChange(title)
  \/ \E path \in {None, FolderPath} : HandleSelectFolder(path)
  \/ \E p \in pendingSaves : SaveNotes(p, TRUE)

InitSaves ==
  /\ StoreInit
  /\ DockIdle
  /\ isElectron

SpecSaves == InitSaves /\ [][SavesNext]_vars

(***************************************************************************)
(* Main process: the window and the edge-dock poll loop                    *)
(***************************************************************************)
PEEK_WIDTH == 20
EDGE_THRESHOLD == 50

Rect(x, y, w, h) == [x |-> x, y |-> y, width |-> w, height |-> h]
Abs(n) == IF n < 0 THEN -n ELSE n
Max(a, b) == IF a >= b THEN a ELSE b
Min(a, b) == IF a <= b THEN a ELSE b

\* a display of 1920 x 1080 at (x, y); a task bar takes the lowest 40 rows
\* and, with inset > 0, a side bar the leftmost columns of the work area
Display(id, x, y, inset) ==
  [id |-> id, bounds |-> Rect(x, y, 1920, 1080),
   workArea |-> Rect(x + inset, y, 1920 - inset, 1040)]

\* the arrangements of displays: screen.getAllDisplays()
Layouts ==
  << {Display(1, 0, 0, 0)},
     {Display(1, 0, 0, 0), Display(2, 1920, 0, 0)},
     {Display(1, 0, 0, 0), Display(2, 1925, 540, 0)},
     {Display(1, 0, 0, 0), Display(2, 1920, 1080, 0)},
     {Display(1, -1920, 0, 0), Display(2, 0, 0, 0), Display(3, 1920, 0, 0)},
     {Display(1, 0, 0, 60)},
     {Display(1, 0, 0, 0), Display(2, 1930, 0, 0)} >>

AllDisplays(l) == Layouts[l]

InRect(p, r) ==
  /\ p.x >= r.x /\ p.x < r.x + r.width
  /\ p.y >= r.y /\ p.y < r.y + r.height

\* screen.getDisplayNearestPoint(cursor): the cursor is on a display
DisplayNearestPoint(p, l) == CHOOSE d \in AllDisplays(l) : InRect(p, d.bounds)
OnSomeDisplay(p, l) == \E d \in AllDisplays(l) : InRect(p, d.bounds)

OverlapsYMutTouching(d, cBounds) ==
  Max(d.bounds.y, cBounds.y)
    <= Min(d.bounds.y + d.bounds.height, cBounds.y + cBounds.height)

OverlapsY(d, cBounds) ==
  Max(d.bounds.y, cBounds.y)
    < Min(d.bounds.y + d.bounds.height, cBounds.y + cBounds.height)

HasNeighborLeft(c, displays) ==
  \E d \in displays :
    /\ d.id # c.id
    /\ Abs((d.bounds.x + d.bounds.width) - c.bounds.x) < 10
    /\ OverlapsY(d, c.bounds)

HasNeighborRight(c, displays) ==
  \E d \in displays :
    /\ d.id # c.id
    /\ Abs(d.bounds.x - (c.bounds.x + c.bounds.width)) < 10
    /\ OverlapsY(d, c.bounds)

IsDockedLeftMutNoNeighborTest(win, workArea, hasNeighborLeft) ==
  Abs(win.x - workArea.x) < EDGE_THRESHOLD

IsDockedLeft(win, workArea, hasNeighborLeft) ==
  Abs(win.x - workArea.x) < EDGE_THRESHOLD /\ ~hasNeighborLeft

IsDockedRightMutNoNeighborTest(win, workArea, hasNeighborRight) ==
  Abs((win.x + win.width) - (workArea.x + workArea.width)) < EDGE_THRESHOLD

IsDockedRight(win, workArea, hasNeighborRight) ==
  /\ Abs((win.x + win.width) - (workArea.x + workArea.width)) < EDGE_THRESHOLD
  /\ ~hasNeighborRight

IsHiddenLeftMutStrict(win, workArea) == win.x < workArea.x - win.width + PEEK_WIDTH
IsHiddenLeft(win, workArea) == win.x <= workArea.x - win.width + PEEK_WIDTH

IsHiddenRight(win, workArea) == win.x >= workArea.x + workArea.width - PEEK_WIDTH

InWindowSpan(cur, win) == cur.y >= win.y /\ cur.y <= win.y + win.height

MouseNearLeft(cur, win, workArea) ==
  cur.x <= workArea.x + PEEK_WIDTH /\ InWindowSpan(cur, win)

MouseNearRight(cur, win, workArea) ==
  cur.x >= workArea.x + workArea.width - PEEK_WIDTH /\ InWindowSpan(cur, win)

MouseInsideMutNever(cur, win) == FALSE
MouseInside(cur, win) ==
  cur.x >= win.x /\ cur.x <= win.x + win.width /\ InWindowSpan(cur, win)

\* the branch of the if / else-if chain that calls setBounds, or "none"
EdgeBranch(cur, win, c, displays) ==
  IF IsHiddenLeft(win, c.workArea)
  THEN (IF MouseNearLeft(cur, win, c.workArea) \/ MouseInside(cur, win)
        THEN "showLeft" ELSE "none")
  ELSE IF IsHiddenRight(win, c.workArea)
  THEN (IF MouseNearRight(cur, win, c.workArea) \/ MouseInside(cur, win)
        THEN "showRight" ELSE "none")
  ELSE IF ~MouseInside(cur, win)
  THEN (IF IsDockedLeft(win, c.workArea, HasNeighborLeft(c, displays))
        THEN "hideLeft"
        ELSE IF IsDockedRight(win, c.workArea, HasNeighborRight(c, displays))
        THEN "hideRight" ELSE "none")
  ELSE "none"

\* the x given to setBounds({ ...winBounds, x })
HideLeftXMutNoPeek(win, workArea) == workArea.x - win.width
HideLeftX(win, workArea) == workArea.x - win.width + PEEK_WIDTH

TargetX(branch, win, workArea) ==
  CASE branch = "showLeft" -> workArea.x
    [] branch = "showRight" -> workArea.x + workArea.width - win.width
    [] branch = "hideLeft" -> HideLeftX(win, workArea)
    [] branch = "hideRight" -> workArea.x + workArea.width - PEEK_WIDTH
    [] OTHER -> win.x

\* mainWindow.setBounds({ ...winBounds, x })
SetBoundsMutResetY(win, x) == [win EXCEPT !.x = x, !.y = 0]
SetBounds(win, x) == [win EXCEPT !.x = x]

\* if (!mainWindow) return;
WindowGoneMutNever(window) == FALSE
WindowGone(window) == ~window

\* clearInterval(t)
ClearIntervalMutNoop(timers, t) == timers
ClearInterval(timers, t) == timers \ {t}

storeUnchanged == UNCHANGED <<storeVars, fileVars>>

StoreIdle ==
  /\ isElectron = TRUE
  /\ notes = <<>>
  /\ activeNoteId = None
  /\ notesPath = None
  /\ initPc = "start"
  /\ lsNotes = NoValue
  /\ lsPath = None
  /\ now = 1
  /\ nextId = 2
  /\ lastOp = [name |-> "mount", arg |-> <<>>, active |-> None]
  /\ ops = 0
  /\ file = Missing
  /\ pendingSaves = {}
  /\ loadResult = NoReply

\* app.whenReady().then(createWindow): a window of 1200 x 800, centred on
\* the primary display, and the poll timer started
InitDock ==
  /\ StoreIdle
  /\ mainWindow = TRUE
  /\ pollInterval = 1
  /\ liveTimers = {1}
  /\ winBounds = Rect(360, 140, 1200, 800)
  /\ layout \in 1..Len(Layouts)
  /\ cursor = [x |-> 700, y |-> 500]
  /\ lastTick = NoTick

\* ticks are counted up to MaxTickCount in a row
MaxTickCount == 3

\* the callbacks that ran since the last event other than a tick, this one
\* included: setInterval keeps calling every 100 ms while nothing else happens
TicksInARow == Min(lastTick.n + 1, MaxTickCount)

\* one callback of a live setInterval timer; without the guard the call
\* mainWindow.getBounds() on null throws a TypeError
Tick ==
  /\ liveTimers # {}
  /\ IF WindowGone(mainWindow)
     THEN /\ lastTick' = [event |-> "tick", branch |-> "noWindow", from |-> 0,
                          n |-> TicksInARow]
          /\ UNCHANGED winBounds
     ELSE IF ~mainWindow
     THEN /\ lastTick' = [event |-> "tick", branch |-> "error", from |-> 0,
                          n |-> TicksInARow]
          /\ UNCHANGED winBounds
     ELSE LET c == DisplayNearestPoint(cursor, layout)
              branch == EdgeBranch(cursor, winBounds, c, AllDisplays(layout))
          IN  /\ winBounds' = SetBounds(winBounds,
                                        TargetX(branch, winBounds, c.workArea))
              /\ lastTick' = [event |-> "tick", branch |-> branch,
                               from |-> winBounds.x, n |-> TicksInARow]
  /\ UNCHANGED <<mainWindow, pollInterval, liveTimers, cursor, layout>>
  /\ storeUnchanged

WindowWidths == {10, PEEK_WIDTH, 1200}

\* places the user may leave the cursor at, on display d: in the work area,
\* or over the side bar of a display that has one
CursorXs(d) ==
  {d.workArea.x + PEEK_WIDTH, d.workArea.x + PEEK_WIDTH + 1,
   d.workArea.x + 700,
   d.workArea.x + d.workArea.width - PEEK_WIDTH - 1,
   d.workArea.x + d.workArea.width - PEEK_WIDTH}
    \cup (IF d.workArea.x > d.bounds.x THEN {d.bounds.x + 10} ELSE {})
CursorYs(d) == {d.bounds.y + 100, d.bounds.y + 500}

MoveCursor(p) ==
  /\ OnSomeDisplay(p, layout)
  /\ p # cursor
  /\ cursor' = p
  /\ lastTick' = NoTick
  /\ UNCHANGED <<mainWindow, pollInterval, liveTimers, winBounds, layout>>
  /\ storeUnchanged

\* places the user may drag a window of width w to, on display d
WindowXs(d, w) ==
  {d.workArea.x - w + PEEK_WIDTH, d.workArea.x - w + PEEK_WIDTH + 1,
   d.workArea.x, d.workArea.x + EDGE_THRESHOLD - 1, d.workArea.x + EDGE_THRESHOLD,
   d.workArea.x + d.workArea.width - w,
   d.workArea.x + d.workArea.width - PEEK_WIDTH}

\* the user drags or resizes the window
UserSetsBounds(x, w) ==
  /\ mainWindow
  /\ <<x, w>> # <<winBounds.x, winBounds.width>>
  /\ winBounds' = [winBounds EXCEPT !.x = x, !.width = w]
  /\ lastTick' = NoTick
  /\ UNCHANGED <<mainWindow, pollInterval, liveTimers, cursor, layout>>
  /\ storeUnchanged

\* a display is connected or removed; the cursor stays on a display
ChangeLayout(l) ==
  /\ l # layout
  /\ OnSomeDisplay(cursor, l)
  /\ layout' = l
  /\ lastTick' = NoTick
  /\ UNCHANGED <<mainWindow, pollInterval, liveTimers, winBounds, cursor>>
  /\ storeUnchanged

\* mainWindow.on('closed'): mainWindow = null; clearInterval(pollInterval)
WindowClosed ==
  /\ mainWindow
  /\ mainWindow' = FALSE
  /\ liveTimers' = ClearInterval(liveTimers, pollInterval)
  /\ lastTick' = NoTick
  /\ UNCHANGED <<pollInterval, winBounds, cursor, layout>>
  /\ storeUnchanged

\* setInterval returns a timer that is not live (timers are told apart only
\* while they are live)
NewTimer == CHOOSE t \in 1..(Cardinality(liveTimers) + 1) : t \notin liveTimers

\* app.on('activate') with no window open: createWindow()
Activate ==
  /\ ~mainWindow
  /\ mainWindow' = TRUE
  /\ winBounds' = Rect(360, 140, 1200, 800)
  /\ pollInterval' = NewTimer
  /\ liveTimers' = liveTimers \cup {NewTimer}
  /\ lastTick' = [event |-> "activate", branch |-> "none", from |-> 0,
                   n |-> 0]
  /\ UNCHANGED <<cursor, layout>>
  /\ storeUnchanged

DockNext ==
  \/ Tick
  \/ \E d \in AllDisplays(layout) :
       \E x \in CursorXs(d), y \in CursorYs(d) : MoveCursor([x |-> x, y |-> y])
  \/ \E d \in AllDisplays(layout), w \in WindowWidths :
       \E x \in WindowXs(d, w) : UserSetsBounds(x, w)
  \/ \E l \in 1..Len(Layouts) : ChangeLayout(l)
  \/ WindowClosed
  \/ Activate

SpecDock == InitDock /\ [][DockNext]_vars

(***************************************************************************)
(* The timer callback alone, applied to any value of the module variables  *)
(* and of the screen it reads: what one callback does depends on nothing   *)
(* else.                                                                   *)
(***************************************************************************)
InitPollCallback ==
  /\ StoreIdle
  /\ mainWindow \in BOOLEAN
  /\ pollInterval = 1
  /\ liveTimers = {1}
  /\ layout \in 1..Len(Layouts)
  /\ \E d \in AllDisplays(layout), w \in WindowWidths :
       \E x \in WindowXs(d, w) : winBounds = Rect(x, 140, w, 800)
  /\ \E d \in AllDisplays(layout) :
       \E x \in CursorXs(d), y \in CursorYs(d) : cursor = [x |-> x, y |-> y]
  /\ lastTick = NoTick

SpecPollCallback == InitPollCallback /\ [][Tick]_vars

(***************************************************************************)
(* The file handlers alone: a collection is saved through 'save-notes' and *)
(* read back through 'load-notes' from the same folder.                    *)
(***************************************************************************)
MaxStrLen == 2

\* characters that the JSON text treats specially, and some that it does not
TextChars == {"a", "n", " ", QUOTE, BACKSLASH, NEWLINE}
StringsUpTo(n) == UNION {[1..k -> TextChars] : k \in 0..n}
Stamps == {0, 9, 10, 1730}

AnyNote ==
  [id : {NewId(7), NewId(10)}, title : StringsUpTo(1),
   content : StringsUpTo(MaxStrLen), updatedAt : Stamps]

Collections ==
  {<<>>} \cup {<<n>> : n \in AnyNote} \cup {<<Note1, n>> : n \in AnyNote}

InitRoundTrip ==
  /\ isElectron = TRUE
  /\ notes \in Collections
  /\ activeNoteId = None
  /\ notesPath = FolderPath
  /\ initPc = "done"
  /\ lsNotes = NoValue
  /\ lsPath = FolderPath
  /\ file \in {Missing, Corrupt}
  /\ now = 1
  /\ nextId = 2
  /\ lastOp = [name |-> "mount", arg |-> <<>>, active |-> None]
  /\ ops = 0
  /\ pendingSaves = {[path |-> FolderPath, notes |-> notes]}
  /\ loadResult = NoReply
  /\ DockIdle

\* window.electron.loadNotes(path), served by the main process
InvokeLoadNotes ==
  /\ pendingSaves = {}
  /\ loadResult = NoReply
  /\ loadResult' = LoadNotesHandler(file)
  /\ lastOp' = [name |-> "loadHandler", arg |-> <<>>, active |-> None]
  /\ UNCHANGED <<isElectron, notes, activeNoteId, notesPath, initPc, lsNotes,
                 lsPath, now, nextId, ops, file, pendingSaves>>
  /\ dockUnchanged

RoundTripNext ==
  \/ \E p \in pendingSaves, writeOk \in BOOLEAN : SaveNotes(p, writeOk)
  \/ InvokeLoadNotes

SpecRoundTrip == InitRoundTrip /\ [][RoundTripNext]_vars

(***************************************************************************)
(* Properties of the note store                                            *)
(***************************************************************************)
Mutations == {"create", "delete", "content", "title"}

\* ns without its k-th element
Without(ns, k) == SubSeq(ns, 1, k - 1) \o SubSeq(ns, k + 1, Len(ns))

\* C1: a create-note operation puts the new note (empty content, an id no
\* existing note has) first, keeps every existing note after it in the same
\* order, and makes the new note the active note.
C1_CreatePrependsAndActivates ==
  [][lastOp'.name = "create" =>
       /\ Len(notes') = Len(notes) + 1
       /\ notes'[1].content = <<>>
       /\ notes'[1].id \notin Ids(notes)
       /\ \A j \in 1..Len(notes) : notes'[j + 1] = notes[j]
       /\ activeNoteId' = notes'[1].id]_vars

C1_Witness ==
  /\ lastOp.name = "create"
  /\ Len(notes) >= 3
  /\ activeNoteId = notes[1].id
  /\ lastOp.active = notes[2].id

\* C2: deleting the active note removes it from the collection and selects
\* the first remaining note, or none when the collection becomes empty.
C2_DeleteActiveSelectsFirst ==
  [][lastOp'.name = "delete" /\ lastOp'.arg = activeNoteId =>
       /\ \E k \in 1..Len(notes) :
            notes[k].id = activeNoteId /\ notes' = Without(notes, k)
       /\ activeNoteId \notin Ids(notes')
       /\ activeNoteId' = IF notes' = <<>> THEN None ELSE notes'[1].id]_vars

C2_Witness ==
  /\ lastOp.name = "delete"
  /\ lastOp.arg = lastOp.active
  /\ Len(notes) >= 1
  /\ activeNoteId = notes[1].id

\* C3: after every mutation of the collection (create, delete,
\* update-content, update-title) browser storage holds the in-memory
\* collection.
C3_MutationOverwritesStorage ==
  (lastOp.name \in Mutations /\ (lastOp.name = "content" => lastOp.active # None))
    => (lsNotes.kind = "json" /\ lsNotes.notes = notes)

\* C7: an update-content operation sets the active note's updatedAt to the
\* current clock value, which is not less than the previous updatedAt.
C7_UpdateContentStamps ==
  [][lastOp'.name = "content" =>
       \A j \in 1..Len(notes) :
         notes[j].id = activeNoteId /\ activeNoteId # None =>
           /\ notes'[j].updatedAt = now
           /\ notes'[j].updatedAt >= notes[j].updatedAt]_vars

C7_Witness ==
  /\ lastOp.name = "content"
  /\ now = MaxClock
  /\ \E j \in 1..Len(notes) :
       /\ notes[j].id = activeNoteId
       /\ notes[j].content = lastOp.arg
       /\ notes[j].updatedAt = now

\* C8: an update-title operation replaces only the title of the active
\* note: its updatedAt, content and id, every other note, the order and
\* the selection are unchanged.
C8_UpdateTitleFrame ==
  [][lastOp'.name = "title" =>
       /\ Len(notes') = Len(notes)
       /\ activeNoteId' = activeNoteId
       /\ \A j \in 1..Len(notes) :
            notes'[j] = IF notes[j].id = activeNoteId
                        THEN [notes[j] EXCEPT !.title = lastOp'.arg]
                        ELSE notes[j]]_vars

C8_Witness ==
  /\ lastOp.name = "title"
  /\ Len(notes) >= 2
  /\ \E j \in 1..Len(notes) :
       /\ notes[j].id = activeNoteId
       /\ notes[j].title = lastOp.arg
       /\ notes[j].updatedAt < now

\* The collection a document holds, as the program that wrote it had it
Holds(doc, ns) == doc.kind = "json" /\ doc.notes = ns

\* the first note of a non-empty loaded collection is the active one
FirstActive(ns, active) == Len(ns) > 0 => active = ns[1].id

\* C9 as stated: with a saved folder path in the desktop host the notes
\* come from the file; otherwise from browser storage when it holds a
\* value; otherwise the collection is exactly one welcome note.
C9_LoadPrecedenceAsStated ==
  [][lastOp'.name = "initDone" =>
       IF lsPath # None /\ isElectron
       THEN loadResult.status = "resolved" /\ notes' = loadResult.value
       ELSE IF lsNotes # NoValue
       THEN Holds(lsNotes, notes')
       ELSE Len(notes') = 1 /\ notes'[1].content = WelcomeContent]_vars

\* C9 amended: the file is used when its load succeeds; a failed file load
\* falls through to browser storage; a stored text that does not parse
\* leaves the collection as it is; the welcome note is seeded only when
\* nothing is stored.  The first loaded note becomes active.
C9_LoadPrecedence ==
  [][/\ lastOp'.name = "loadHandler" =>
          /\ lsPath # None /\ isElectron
          /\ file.kind = "json" => loadResult' = [status |-> "resolved",
                                                  value |-> file.notes]
          /\ file = Missing => loadResult' = [status |-> "resolved",
                                              value |-> <<>>]
          /\ file = Corrupt => loadResult'.status = "rejected"
     /\ lastOp'.name = "initDone" =>
          IF lsPath # None /\ isElectron /\ loadResult.status = "resolved"
          THEN /\ notes' = loadResult.value
               /\ FirstActive(notes', activeNoteId')
          ELSE /\ (lsPath # None /\ isElectron) => loadResult.status = "rejected"
               /\ IF lsNotes.kind = "json"
                  THEN Holds(lsNotes, notes') /\ FirstActive(notes', activeNoteId')
                  ELSE IF lsNotes = NoValue
                  THEN /\ Len(notes') = 1
                       /\ notes'[1].content = WelcomeContent
                       /\ notes'[1].updatedAt = now
                       /\ activeNoteId' = notes'[1].id
                  ELSE notes' = notes /\ activeNoteId' = activeNoteId]_vars

C9_Witness ==
  /\ lastOp.name = "initDone"
  /\ isElectron /\ lsPath # None
  /\ loadResult.status = "resolved"
  /\ Holds(file, notes)
  /\ Len(notes) = 2
  /\ lsNotes = Written(notes, 0)
  /\ activeNoteId = notes[1].id

\* C10: a collection saved through the save-notes handler and then loaded
\* through the load-notes handler from the same folder comes back identical:
\* the same notes in the same order, each with the same id, title, content
\* and updatedAt.
C10_SaveThenLoadIsIdentity ==
  (lastOp.name = "loadHandler" /\ file.kind = "json") =>
    /\ loadResult.status = "resolved"
    /\ Len(loadResult.value) = Len(notes)
    /\ \A j \in 1..Len(notes) :
         /\ loadResult.value[j].id = notes[j].id
         /\ loadResult.value[j].title = notes[j].title
         /\ loadResult.value[j].content = notes[j].content
         /\ loadResult.value[j].updatedAt = notes[j].updatedAt

C10_Witness ==
  /\ lastOp.name = "loadHandler"
  /\ file.kind = "json"
  /\ Len(notes) = 2
  /\ notes[2].content = <<BACKSLASH, "n">>
  /\ notes[2].title = <<QUOTE>>
  /\ notes[2].updatedAt = 1730
  /\ loadResult.value = notes

(***************************************************************************)
(* Properties of the edge dock.  In each, c is the display nearest the     *)
(* cursor when the tick runs and winBounds the bounds the tick reads.      *)
(***************************************************************************)
CurrentDisplay == DisplayNearestPoint(cursor, layout)
LeftNeighbour == HasNeighborLeft(CurrentDisplay, AllDisplays(layout))
TickRuns == lastTick'.event = "tick" /\ mainWindow
HiddenLeftX(wa) == wa.x - winBounds.width + PEEK_WIDTH
CursorOutside ==
  ~(/\ cursor.x >= winBounds.x /\ cursor.x <= winBounds.x + winBounds.width
    /\ cursor.y >= winBounds.y /\ cursor.y <= winBounds.y + winBounds.height)
InsideWorkArea(wa) ==
  winBounds.x >= wa.x /\ winBounds.x + winBounds.width <= wa.x + wa.width

\* C4: with no neighbour on the left of the display nearest the cursor, the
\* window at x = workArea.x - (width - PEEK_WIDTH) and the cursor in the
\* left peek strip within the window's vertical span, the tick sets the
\* window's x to workArea.x.
C4_PeekStripReveals ==
  [][LET wa == CurrentDisplay.workArea
     IN  (/\ TickRuns
          /\ ~LeftNeighbour
          /\ winBounds.x = wa.x - (winBounds.width - PEEK_WIDTH)
          /\ cursor.x <= wa.x + PEEK_WIDTH
          /\ cursor.y >= winBounds.y
          /\ cursor.y <= winBounds.y + winBounds.height)
         => winBounds'.x = wa.x]_vars

C4_Witness ==
  LET wa == CurrentDisplay.workArea
  IN  /\ lastTick.event = "tick" /\ lastTick.branch = "showLeft"
      /\ ~LeftNeighbour
      /\ winBounds.width = 1200
      /\ lastTick.from = wa.x - (winBounds.width - PEEK_WIDTH)
      /\ cursor.x = wa.x + PEEK_WIDTH
      /\ winBounds.x = wa.x
      /\ wa.x # 0

\* C5 as stated: a window docked left (x within EDGE_THRESHOLD of the
\* work-area x) and fully visible, with the cursor outside it, is moved by
\* the tick to x = workArea.x - width + PEEK_WIDTH.
C5_HideAsStated ==
  [][LET wa == CurrentDisplay.workArea
     IN  (/\ TickRuns
          /\ Abs(winBounds.x - wa.x) < EDGE_THRESHOLD
          /\ InsideWorkArea(wa)
          /\ CursorOutside)
         => winBounds'.x = HiddenLeftX(wa)]_vars

\* C5 amended: the same, for a display with no neighbour on its left and a
\* window wider than PEEK_WIDTH.
C5_HideDockedLeft ==
  [][LET wa == CurrentDisplay.workArea
     IN  (/\ TickRuns
          /\ ~LeftNeighbour
          /\ winBounds.width > PEEK_WIDTH
          /\ Abs(winBounds.x - wa.x) < EDGE_THRESHOLD
          /\ InsideWorkArea(wa)
          /\ CursorOutside)
         => winBounds'.x = HiddenLeftX(wa)]_vars

C5_Witness ==
  LET wa == CurrentDisplay.workArea
  IN  /\ lastTick.event = "tick" /\ lastTick.branch = "hideLeft"
      /\ ~LeftNeighbour
      /\ winBounds.width > PEEK_WIDTH
      /\ lastTick.from = wa.x + EDGE_THRESHOLD - 1
      /\ winBounds.x = wa.x - winBounds.width + PEEK_WIDTH
      /\ cursor.x > wa.x + winBounds.width + EDGE_THRESHOLD

\* C6 as stated: while the display nearest the cursor has a display abutting
\* its left edge, no tick moves the window to
\* x = workArea.x - width + PEEK_WIDTH.
C6_NoHiddenLeftAsStated ==
  [][LET wa == CurrentDisplay.workArea
     IN  (TickRuns /\ LeftNeighbour /\ winBounds'.x # winBounds.x)
         => winBounds'.x # HiddenLeftX(wa)]_vars

\* C6 amended: under a left neighbour no tick takes the hide-left branch,
\* and no tick moves a window wider than PEEK_WIDTH, on a work area wider
\* than PEEK_WIDTH, to x = workArea.x - width + PEEK_WIDTH.
C6_NeighbourSuppressesHideLeft ==
  [][LET wa == CurrentDisplay.workArea
     IN  (TickRuns /\ LeftNeighbour)
         => /\ lastTick'.branch # "hideLeft"
            /\ (/\ winBounds.width > PEEK_WIDTH
                /\ wa.width > PEEK_WIDTH
                /\ winBounds'.x # winBounds.x)
                 => winBounds'.x # HiddenLeftX(wa)]_vars

C6_Witness ==
  LET wa == CurrentDisplay.workArea
  IN  /\ lastTick.event = "tick" /\ lastTick.branch = "none"
      /\ LeftNeighbour
      /\ winBounds.width > PEEK_WIDTH
      /\ winBounds.x = wa.x
      /\ CursorOutside

RightNeighbour == HasNeighborRight(CurrentDisplay, AllDisplays(layout))
Repositions == {"showLeft", "showRight", "hideLeft", "hideRight"}
Hides == {"hideLeft", "hideRight"}

\* C11: every reposition a tick performs (reveal or hide, left or right)
\* leaves the window's width, height and y-origin as they were; only the
\* x-origin changes.
C11_RepositionKeepsSizeAndY ==
  [][(TickRuns /\ lastTick'.branch \in Repositions) =>
       /\ winBounds'.width = winBounds.width
       /\ winBounds'.height = winBounds.height
       /\ winBounds'.y = winBounds.y]_vars

C11_Witness ==
  /\ lastTick.event = "tick"
  /\ lastTick.branch = "hideRight"
  /\ winBounds.x # lastTick.from
  /\ winBounds.width = PEEK_WIDTH
  /\ winBounds.height = 800
  /\ winBounds.y = 140

\* C12: while the display nearest the cursor has displays abutting both its
\* left and its right edge, no tick performs a hide reposition.
C12_NoHideBetweenNeighbours ==
  [][(TickRuns /\ LeftNeighbour /\ RightNeighbour) =>
       /\ lastTick'.branch \notin Hides
       /\ winBounds'.x # winBounds.x => lastTick'.branch \in {"showLeft", "showRight"}]_vars

C12_Witness ==
  LET wa == CurrentDisplay.workArea
  IN  /\ lastTick.event = "tick" /\ lastTick.branch = "none"
      /\ LeftNeighbour /\ RightNeighbour
      /\ winBounds.width > PEEK_WIDTH
      /\ winBounds.x + winBounds.width = wa.x + wa.width
      /\ CursorOutside

\* C14: at most one poll timer is live, the live one is the one
\* pollInterval refers to, and none is live while no window exists.
C14_OnePollTimer ==
  /\ Cardinality(liveTimers) <= 1
  /\ liveTimers \subseteq {pollInterval}
  /\ ~mainWindow => liveTimers = {}

C14_Witness ==
  /\ lastTick.event = "activate"
  /\ mainWindow
  /\ liveTimers = {pollInterval}

\* C13: a tick that fires while the window handle is gone returns at once:
\* it reads no geometry, repositions nothing and raises no error.
C13_TickWithoutWindowIsNoOp ==
  [][(lastTick'.event = "tick" /\ ~mainWindow) =>
       /\ lastTick'.branch = "noWindow"
       /\ lastTick'.from = 0
       /\ UNCHANGED <<mainWindow, pollInterval, liveTimers, winBounds,
                      cursor, layout>>]_vars

C13_Witness ==
  /\ lastTick.event = "tick"
  /\ lastTick.branch = "noWindow"
  /\ ~mainWindow
  /\ liveTimers # {}

CursorInStripLeft(wa) ==
  /\ cursor.x <= wa.x + PEEK_WIDTH
  /\ cursor.y >= winBounds.y /\ cursor.y <= winBounds.y + winBounds.height
CursorInStripRight(wa) ==
  /\ cursor.x >= wa.x + wa.width - PEEK_WIDTH
  /\ cursor.y >= winBounds.y /\ cursor.y <= winBounds.y + winBounds.height

\* C19: a tick repositions nothing when (a) the window is not hidden and
\* the cursor is inside it, (b) the window is not hidden and docked on
\* neither edge, or (c) the window is hidden on an edge and the cursor is
\* neither in that edge's peek strip nor inside the window; and no tick
\* hides a window the cursor is inside.
C19_NoActionCases ==
  [][LET wa == CurrentDisplay.workArea
         hiddenLeft == IsHiddenLeft(winBounds, wa)
         hiddenRight == IsHiddenRight(winBounds, wa)
         visible == ~hiddenLeft /\ ~hiddenRight
         dockedLeft == IsDockedLeft(winBounds, wa, LeftNeighbour)
         dockedRight == IsDockedRight(winBounds, wa, RightNeighbour)
     IN  TickRuns =>
           /\ (\/ visible /\ ~CursorOutside
               \/ visible /\ ~dockedLeft /\ ~dockedRight
               \/ hiddenLeft /\ ~CursorInStripLeft(wa) /\ CursorOutside
               \/ hiddenRight /\ ~CursorInStripRight(wa) /\ CursorOutside)
                => (winBounds' = winBounds /\ lastTick'.branch = "none")
           /\ ~CursorOutside => lastTick'.branch \notin Hides]_vars

C19_Witness ==
  LET wa == CurrentDisplay.workArea
  IN  /\ lastTick.event = "tick" /\ lastTick.branch = "none"
      /\ ~LeftNeighbour
      /\ winBounds.width > PEEK_WIDTH
      /\ winBounds.x = wa.x
      /\ ~CursorOutside

\* some display other than the one nearest the cursor holds the whole
\* window inside its work area
OnAnotherDisplay ==
  \E d \in AllDisplays(layout) :
    /\ d.id # CurrentDisplay.id
    /\ InsideWorkArea(d.workArea)
    /\ winBounds.width > PEEK_WIDTH

\* C20 as stated: a window that is fully visible inside another display's
\* work area is not treated as hidden by a tick and is not moved onto the
\* display nearest the cursor.
C20_HiddenIsLocalToWindowDisplay ==
  [][(TickRuns /\ OnAnotherDisplay) =>
       /\ lastTick'.branch \notin {"showLeft", "showRight"}
       /\ winBounds'.x = winBounds.x]_vars

\* C18: the save-notes handler never rejects: it resolves to
\* {success: true} when the file write succeeds, and then the file holds
\* the collection it was given, and to {success: false, error} when the
\* write fails, and then the file is as it was.
C18_SaveHandlerAlwaysResolves ==
  [][lastOp'.name = "saveHandler" =>
       /\ lastOp'.arg.status = "resolved"
       /\ IF lastOp'.arg.written
          THEN /\ lastOp'.arg.reply = [success |-> TRUE]
               /\ \E p \in pendingSaves \ pendingSaves' :
                    file' = Written(p.notes, 2)
          ELSE /\ lastOp'.arg.reply.success = FALSE
               /\ DOMAIN lastOp'.arg.reply = {"success", "error"}
               /\ file' = file]_vars

C18_Witness ==
  /\ lastOp.name = "saveHandler"
  /\ ~lastOp.arg.written
  /\ lastOp.arg.status = "resolved"
  /\ lastOp.arg.reply.success = FALSE
  /\ file = Corrupt
  /\ Len(notes) = 2

FailedSave(op) == op.name = "saveHandler" /\ ~op.arg.written

\* C16 as stated: a failed save changes neither the in-memory collection
\* nor the active selection, and the mutation that follows it issues a new
\* save of the whole collection.
C16_FailedSaveThenNewSave ==
  [][/\ FailedSave(lastOp') =>
          notes' = notes /\ activeNoteId' = activeNoteId
     /\ (FailedSave(lastOp) /\ lastOp'.name \in Mutations /\ notes' # notes) =>
          [path |-> notesPath, notes |-> notes'] \in pendingSaves']_vars

\* the load init() is about to finish on has failed: the load-notes
\* invocation rejected, or the browser-storage value it falls back to does
\* not parse
FileLoadFailed == initPc = "replied" /\ loadResult.status = "rejected"
StorageLoadFailed ==
  /\ lsNotes.kind = "text"
  /\ ~(initPc = "replied" /\ loadResult.status = "resolved")
IsWelcomeSet(ns) == Len(ns) = 1 /\ ns[1].content = WelcomeContent

\* C15 as stated: after a failed load the application has an empty
\* collection or the welcome note alone.
C15_FailedLoadEmptyOrDefault ==
  [][(lastOp'.name = "initDone" /\ (FileLoadFailed \/ StorageLoadFailed)) =>
       (notes' = <<>> \/ IsWelcomeSet(notes'))]_vars

\* C15 amended: a failed load does not stop init(); a failed file load falls
\* back to browser storage; the application ends up with the collection
\* stored there when it parses, with the welcome note alone when nothing is
\* stored there, and with an empty collection when the stored value does
\* not parse.
C15_FailedLoadFallsBack ==
  [][(lastOp'.name = "initDone" /\ (FileLoadFailed \/ StorageLoadFailed)) =>
       /\ initPc' = "done"
       /\ CASE lsNotes.kind = "json" -> notes' = lsNotes.notes
            [] lsNotes.kind = "none" -> IsWelcomeSet(notes')
            [] lsNotes.kind = "text" -> notes' = <<>>]_vars

C15_Witness ==
  /\ lastOp.name = "initDone"
  /\ initPc = "done"
  /\ file = Corrupt
  /\ loadResult.status = "rejected"
  /\ Len(notes) = 2
  /\ Holds(lsNotes, notes)

IdsInOrder(ns) == [j \in 1..Len(ns) |-> ns[j].id]
DistinctIds(ns) ==
  \A i, j \in 1..Len(ns) : i # j => ns[i].id # ns[j].id

\* C17: a create, delete, update-content or update-title operation on a
\* collection with pairwise distinct ids leaves the ids pairwise distinct
\* and changes the id of no existing note: the ids of the notes that stay
\* are the same, in the same order.
C17_IdsDistinctAndImmutable ==
  [][(lastOp'.name \in Mutations /\ DistinctIds(notes)) =>
       /\ DistinctIds(notes')
       /\ IdsInOrder(notes') =
            CASE lastOp'.name = "create" ->
                   <<lastOp'.arg>> \o IdsInOrder(notes)
              [] lastOp'.name = "delete" ->
                   SelectSeq(IdsInOrder(notes), LAMBDA id : id # lastOp'.arg)
              [] OTHER -> IdsInOrder(notes)]_vars

C17_Witness ==
  /\ lastOp.name = "delete"
  /\ nextId > 2
  /\ Len(notes) = 2
  /\ DistinctIds(notes)
  /\ NewId(nextId) \in Ids(notes)

\* length of the common part of the vertical spans of two displays
SharedHeight(d, c) ==
  Min(d.bounds.y + d.bounds.height, c.bounds.y + c.bounds.height)
    - Max(d.bounds.y, c.bounds.y)
AbutsLeftOf(d, c) ==
  /\ d.id # c.id
  /\ Abs((d.bounds.x + d.bounds.width) - c.bounds.x) < 10
  /\ SharedHeight(d, c) > 0
AbutsRightOf(d, c) ==
  /\ d.id # c.id
  /\ Abs(d.bounds.x - (c.bounds.x + c.bounds.width)) < 10
  /\ SharedHeight(d, c) > 0

\* C21: a display has a left (right) neighbour exactly when some other
\* display has its right (left) edge less than 10 pixels from the display's
\* left (right) edge and shares a vertical span of positive length with it;
\* displays that only touch at a corner, and the display itself, do not
\* count.
C21_NeighbourAdjacency ==
  \A c \in AllDisplays(layout) :
    /\ HasNeighborLeft(c, AllDisplays(layout))
         <=> \E d \in AllDisplays(layout) : AbutsLeftOf(d, c)
    /\ HasNeighborRight(c, AllDisplays(layout))
         <=> \E d \in AllDisplays(layout) : AbutsRightOf(d, c)
    /\ (\A d \in AllDisplays(layout) : d.id = c.id \/ SharedHeight(d, c) <= 0)
         => /\ ~HasNeighborLeft(c, AllDisplays(layout))
            /\ ~HasNeighborRight(c, AllDisplays(layout))

C21_Witness ==
  /\ layout = 4
  /\ lastTick.event = "tick"
  /\ lastTick.branch = "hideLeft"
  /\ CurrentDisplay.id = 2
  /\ ~LeftNeighbour

\* C22: update-content replaces the content and the timestamp of the
\* active note only: every other note, the order and the selection are
\* unchanged, and with no active note nothing changes.
C22_UpdateContentFrame ==
  [][lastOp'.name = "content" =>
       /\ activeNoteId' = activeNoteId
       /\ Len(notes') = Len(notes)
       /\ \A j \in 1..Len(notes) :
            notes'[j] = IF notes[j].id = activeNoteId /\ activeNoteId # None
                        THEN [notes[j] EXCEPT !.content = lastOp'.arg,
                                              !.updatedAt = now]
                        ELSE notes[j]
       /\ activeNoteId = None =>
            UNCHANGED <<notes, lsNotes, pendingSaves, file>>]_vars

C22_Witness ==
  /\ lastOp.name = "content"
  /\ Len(notes) >= 2
  /\ \E j, k \in 1..Len(notes) :
       /\ notes[j].id = activeNoteId
       /\ notes[j].content = lastOp.arg
       /\ notes[k].id # activeNoteId
       /\ notes[k].content # lastOp.arg
       /\ notes[k].updatedAt < now

\* C23: in every state the active note id is none or the id of a note of
\* the collection.
C23_ActiveNoteIsPresent ==
  activeNoteId = None \/ activeNoteId \in Ids(notes)

LoadPending == initPc \in {"loading", "replied"}

\* C24 as stated: in the desktop host with a saved folder path nothing is
\* written to the notes file or to browser storage, and no save is issued,
\* while the startup load is pending; and the notes the user created
\* meanwhile are still in the collection when the load completes.
C24_NoSaveBeforeLoad ==
  [][(isElectron /\ lsPath # None /\ LoadPending) =>
       /\ LoadPending' =>
            /\ pendingSaves' \subseteq pendingSaves
            /\ lsNotes' = lsNotes
            /\ file' = file
       /\ ~LoadPending' => Ids(notes) \subseteq Ids(notes')]_vars

\* what a load of the notes file would return now is the collection
FileYields(ns) == LoadNotesHandler(file) = [status |-> "resolved", value |-> ns]

\* C25 as stated: in the desktop host with a folder configured, once the
\* user has mutated the collection and no save is pending any more (every
\* write having succeeded), the notes file holds the in-memory collection.
C25_FileCatchesUp ==
  (/\ isElectron /\ notesPath # None /\ initPc = "done"
   /\ pendingSaves = {}
   /\ \/ lastOp.name = "saveHandler"
      \/ lastOp.name \in Mutations /\ (lastOp.name = "content" => lastOp.active # None))
    => FileYields(notes)


\* C26: with the display layout, the cursor and the user's placement of the
\* window left alone, the window's x-origin is fixed after two ticks: a
\* third or later tick in a row does not move the window.
C26_StableAfterTwoTicks ==
  [][(lastTick'.event = "tick" /\ lastTick.n >= 2) =>
       winBounds'.x = winBounds.x]_vars


FlushLeft(wa) == winBounds.x = wa.x
FlushRight(wa) == winBounds.x + winBounds.width = wa.x + wa.width
Wide == winBounds.width > PEEK_WIDTH

\* C27: for a window wider than PEEK_WIDTH on a display with no neighbour on
\* the side concerned: the position a hide tick writes is classified hidden
\* on that edge and the position a reveal tick writes is classified visible
\* and docked on that edge, both against the same display; a hide tick of a
\* window flush with the edge writes bounds from which the reveal on that
\* edge gives the original bounds back, and a reveal tick that comes right
\* after such a hide tick does so.
C27_HideRevealRoundTrip ==
  [][(TickRuns /\ Wide) =>
       LET wa == CurrentDisplay.workArea
           b == lastTick'.branch
           was == lastTick.event = "tick" /\ lastTick.n >= 1
       IN  /\ b = "hideLeft" => IsHiddenLeft(winBounds', wa)
           /\ b = "hideRight" => IsHiddenRight(winBounds', wa)
           /\ (b = "showLeft" /\ ~LeftNeighbour) =>
                 /\ ~IsHiddenLeft(winBounds', wa)
                 /\ ~IsHiddenRight(winBounds', wa)
                 /\ IsDockedLeft(winBounds', wa, LeftNeighbour)
           /\ (b = "showRight" /\ ~RightNeighbour) =>
                 /\ ~IsHiddenLeft(winBounds', wa)
                 /\ ~IsHiddenRight(winBounds', wa)
                 /\ IsDockedRight(winBounds', wa, RightNeighbour)
           /\ (b = "hideLeft" /\ FlushLeft(wa)) =>
                 SetBounds(winBounds', TargetX("showLeft", winBounds', wa))
                   = winBounds
           /\ (b = "hideRight" /\ FlushRight(wa)) =>
                 SetBounds(winBounds', TargetX("showRight", winBounds', wa))
                   = winBounds
           /\ (b = "showLeft" /\ was /\ lastTick.branch = "hideLeft"
                 /\ lastTick.from = wa.x) =>
                 winBounds' = [winBounds EXCEPT !.x = lastTick.from]
           /\ (b = "showRight" /\ was /\ lastTick.branch = "hideRight"
                 /\ lastTick.from + winBounds.width = wa.x + wa.width) =>
                 winBounds' = [winBounds EXCEPT !.x = lastTick.from]]_vars

\* a reveal tick has just put back a window that the tick before it hid
\* from the position flush with the left edge
C27_Witness ==
  /\ lastTick.event = "tick"
  /\ lastTick.branch = "showLeft"
  /\ lastTick.n = 3
  /\ lastTick.from = HiddenLeftX(CurrentDisplay.workArea)
  /\ FlushLeft(CurrentDisplay.workArea)
  /\ Wide
  /\ ~LeftNeighbour
  /\ cursor.x < CurrentDisplay.workArea.x


\* the length of the horizontal overlap of window bounds b and work area wa
\* (negative when they are apart)
OverlapX(b, wa) == Min(b.x + b.width, wa.x + wa.width) - Max(b.x, wa.x)

\* C28: right after a reposition by a tick, a window at least PEEK_WIDTH
\* wide overlaps the work area of the display nearest the cursor
\* horizontally by at least PEEK_WIDTH pixels (the work area being at least
\* PEEK_WIDTH wide); and no tick of any branch, for any window width, moves
\* the window to where it does not overlap that work area at all.
C28_WindowNeverLost ==
  [][TickRuns =>
       LET wa == CurrentDisplay.workArea
       IN  /\ (/\ lastTick'.branch \in Repositions
                /\ winBounds.width >= PEEK_WIDTH
                /\ wa.width >= PEEK_WIDTH) =>
                 OverlapX(winBounds', wa) >= PEEK_WIDTH
           /\ winBounds'.x # winBounds.x => OverlapX(winBounds', wa) > 0]_vars

\* a tick has just hidden a window exactly PEEK_WIDTH wide
C28_Witness ==
  /\ lastTick.event = "tick"
  /\ lastTick.branch \in Hides
  /\ winBounds.width = PEEK_WIDTH
  /\ winBounds.x # lastTick.from
  /\ OverlapX(winBounds, CurrentDisplay.workArea) = PEEK_WIDTH

====
